---- MODULE Spec2Model ----
(***************************************************************************)
(* The batched, resumable fetch-and-assemble cycle of DnsTopCrawler        *)
(* (src/iyp/crawlers/cloudflare/__init__.py): name collection, the batch   *)
(* planning loop, the as_completed processing loop, and the cache scan of  *)
(* run(); and the dataset loops of the ranking-bucket crawler              *)
(* (src/iyp/crawlers/cloudflare/ranking_bucket.py).                        *)
(***************************************************************************)
EXTENDS Integers, Sequences, FiniteSets, Bags, TLC

(* ------------------------------ bounds -------------------------------- *)

\* Largest number of domain names the graph query returns.
MaxNames == 5
\* BATCH_SIZE of the source (10 there), scaled down so that several batches
\* form within MaxNames names.
BATCH_SIZE == 2
\* A response holds at most this many entries more than the batch has names.
MaxExtra == 1
\* Distinct endTime values a response may carry.
MaxTime == 2
\* PARALLEL_DOWNLOADS of the source (4 there), scaled down so that a request
\* waits for a worker within MaxNames names.
PARALLEL_DOWNLOADS == 2
\* Retry(total=10) of the source, scaled down.
RETRY_TOTAL == 2
\* Most datasets the ranking-bucket listing holds.
MaxDatasets == 2
\* Most lines a dataset file has after its header.
MaxLines == 2

(* ------------------------------ subjects ------------------------------ *)

\* Domain names in lexicographic order.
Universe == <<"a", "b", "c", "d", "e", "f", "g">>

Rank(s) == CHOOSE k \in 1..Len(Universe) : Universe[k] = s

RECURSIVE SortedList(_)
\* list(sorted(S)): the least name first.
SortedList(S) ==
    IF S = {} THEN <<>>
    ELSE LET m == CHOOSE x \in S : \A y \in S : Rank(x) <= Rank(y)
         IN <<m>> \o SortedList(S \ {m})

\* The name sets the graph query may return.
NameSets == {{Universe[k] : k \in 1..n} : n \in 0..MaxNames}

AllNames == {Universe[k] : k \in 1..MaxNames}

Range(s) == {s[k] : k \in 1..Len(s)}

(* ------------------------------ cache dir ----------------------------- *)

\* One file name for every name.
FpathShared(name) == <<"tmp_dir", "data_", "", ".json">>

\* os.path.join(tmp_dir, f'data_{name}.json')
Fpath(name) == <<"tmp_dir", "data_", name, ".json">>

AllPaths == {Fpath(n) : n \in AllNames}

\* A path that names no file.
NoFile == [exists |-> FALSE, content |-> {}]

\* A file holding the JSON object `content`, a set of <<key, value>> pairs.
File(content) == [exists |-> TRUE, content |-> content]

\* The record an earlier collection cycle left for `name`.
PriorRecord(name) == File({<<name, 0>>})

\* A directory without files.
EmptyDir == [p \in AllPaths |-> NoFile]

\* The existence check left out.
ExistsNever(fs, p) == FALSE

\* os.path.exists(fpath)
Exists(fs, p) == fs[p].exists

\* with open(path, 'w') as fp: json.dump(content, fp)
WriteFile(fs, p, content) == [fs EXCEPT ![p] = File(content)]

\* self.create_tmp_dir(): "Clear the cache." The directory comes back empty.
create_tmp_dir(fs) == EmptyDir

(* ------------------------------ state --------------------------------- *)

VARIABLES
    resumed,    \* whether an earlier run of this behaviour has finished
    pc,         \* position in run()/fetch()
    names,      \* self.names
    files,      \* the crawler's tmp directory: path -> content or NoFile
    i,          \* fetch(): loop index
    batch,      \* fetch(): batch under construction
    fpaths,     \* fetch(): name -> path of the batch under construction
    queries,    \* fetch(): the futures, each with .domains and .fpaths
    qstate,     \* per future: "queued", "inflight", a member of Finished,
                \* "ok" or "failed"
    retries,    \* per future: retries the transport made for the request
                \* it is performing
    errors,     \* per future: logging.error calls made for it
    warnings,   \* per future: logging.warning calls made while processing it
    reference_time_modification,  \* self.reference[...]; 0 is None
    scanned,    \* run(): paths os.scandir has yielded so far
    computed,   \* run(): the arguments of the compute_link calls, as a bag
    mapCalls,   \* run(): calls of map_links
    addCalls,   \* run(): calls of iyp.batch_add_links
    writes,     \* the paths opened for writing in this run, as a bag
    bpc,        \* ranking_bucket: position in run()
    listing,    \* ranking_bucket: datasets_json['result']['datasets']
    bidx,       \* ranking_bucket: datasets of the listing the first loop has taken
    datasets,   \* ranking_bucket: the list of (dataset, dataset_domains)
    all_domains,  \* ranking_bucket: the set all_domains
    domain_ids, \* ranking_bucket: the dict domain_ids
    ridx,       \* ranking_bucket: entries of datasets the second loop has taken
    rankCalls,  \* ranking_bucket: calls of iyp.batch_add_links('RANK', ...)
    rankLinks,  \* ranking_bucket: the <<src_id, dst_id>> submitted, as a bag
    skipped,    \* ranking_bucket: ids the first loop logged an error for
    downloaded, \* ranking_bucket: id -> lines of the file a download returned
    prevFailed  \* names of the batches logged as failed in the previous run

vars == <<resumed, pc, names, files, i, batch, fpaths, queries, qstate, retries, errors,
          warnings, reference_time_modification, scanned, computed, mapCalls,
          addCalls, writes, prevFailed, bpc, listing, bidx, datasets, all_domains,
          domain_ids, ridx, rankCalls, rankLinks, skipped, downloaded>>

planVars == <<i, batch, fpaths, queries, qstate, retries, errors, warnings>>
scanVars == <<scanned, computed, mapCalls, addCalls>>
bucketVars == <<bpc, listing, bidx, datasets, all_domains, domain_ids, ridx,
                rankCalls, rankLinks, skipped, downloaded>>

\* An empty dict.
EmptyDict == [n \in {} |-> Fpath(n)]

DictSet(d, k, v) == [n \in DOMAIN d \cup {k} |-> IF n = k THEN v ELSE d[n]]

(* ------------------------------ executor ------------------------------ *)

\* How a future can be done: with a response, with a 401 response, or with
\* the RetryError the transport raises when its retries are used up.
Finished == {"completed", "unauthorized", "exhausted"}

\* The requests the worker threads are performing.
Running(qs) == {q \in 1..Len(qs) : qs[q] = "inflight"}

\* The requests waiting in the executor's work queue.
Waiting(qs) == {q \in 1..Len(qs) : qs[q] = "queued"}

\* FuturesSession(max_workers=PARALLEL_DOWNLOADS)
WorkerFree(qs) == Cardinality(Running(qs)) < PARALLEL_DOWNLOADS

\* executor.submit: the request is put on the work queue.
Submit(qs) == Append(qs, "queued")

\* The work item a worker takes next: the oldest of the queue.
Take(qs) == {q \in Waiting(qs) : \A r \in Waiting(qs) : q <= r}

(* ------------------------------ planner ------------------------------- *)

\* <= in place of <.
BatchOpenOffByOne(b, idx, ns) == Len(b) <= BATCH_SIZE /\ idx < Len(ns)

\* len(batch) < BATCH_SIZE and i < len(self.names)
BatchOpen(b, idx, ns) == Len(b) < BATCH_SIZE /\ idx < Len(ns)

\* The ranking-bucket crawler before its run() is called.
BucketIdle(ds) ==
    /\ bpc = "fetch"
    /\ listing = ds
    /\ bidx = 0
    /\ datasets = <<>>
    /\ all_domains = {}
    /\ domain_ids = [d \in {} |-> d]
    /\ ridx = 0
    /\ rankCalls = 0
    /\ rankLinks = EmptyBag
    /\ skipped = {}
    /\ downloaded = [d \in {} |-> <<>>]

\* A new crawler object: __init__ collects and sorts the names.
Construct(S) ==
    /\ names = SortedList(S)
    /\ reference_time_modification = 0
    /\ i = 0
    /\ batch = <<>>
    /\ fpaths = EmptyDict
    /\ queries = <<>>
    /\ qstate = <<>>
    /\ retries = <<>>
    /\ errors = <<>>
    /\ warnings = <<>>
    /\ scanned = {}
    /\ computed = EmptyBag
    /\ mapCalls = 0
    /\ addCalls = 0
    /\ writes = EmptyBag

\* The first run on a machine that has no tmp directory yet.
Init ==
    /\ resumed = FALSE
    /\ pc = "start"
    /\ files = EmptyDir
    /\ prevFailed = {}
    /\ \E S \in NameSets : Construct(S)
    /\ BucketIdle(<<>>)

\* run() calls fetch(), which sets up the session and calls create_tmp_dir().
StartFetch ==
    /\ pc = "start"
    /\ files' = create_tmp_dir(files)
    /\ pc' = "plan"
    /\ UNCHANGED <<bucketVars, writes, resumed, names, reference_time_modification, prevFailed>>
    /\ UNCHANGED planVars
    /\ UNCHANGED scanVars

\* One iteration of "while i < len(self.names)".
PlanIter ==
    /\ pc = "plan"
    /\ i < Len(names)
    /\ LET name == names[i + 1]
           fpath == Fpath(name)
           b2 == Append(batch, name)
           fp2 == DictSet(fpaths, name, fpath)
       IN /\ i' = i + 1
          /\ IF Exists(files, fpath)
             THEN \* continue
                  /\ pc' = "plan"
                  /\ UNCHANGED <<batch, fpaths, queries, qstate, retries, errors,
                                 warnings>>
             ELSE IF BatchOpen(b2, i + 1, names)
             THEN \* Batch not yet full and not in last iteration.
                  /\ pc' = "plan"
                  /\ batch' = b2
                  /\ fpaths' = fp2
                  /\ UNCHANGED <<queries, qstate, retries, errors, warnings>>
             ELSE IF b2 = <<>>
             THEN \* break
                  /\ pc' = "process"
                  /\ batch' = b2
                  /\ fpaths' = fp2
                  /\ UNCHANGED <<queries, qstate, retries, errors, warnings>>
             ELSE \* req_session.get(url): the request is handed to the executor.
                  /\ pc' = "plan"
                  /\ queries' = Append(queries, [domains |-> b2, fpaths |-> fp2])
                  /\ qstate' = Submit(qstate)
                  /\ retries' = Append(retries, 0)
                  /\ errors' = Append(errors, 0)
                  /\ warnings' = Append(warnings, 0)
                  /\ batch' = <<>>
                  /\ fpaths' = EmptyDict
    /\ UNCHANGED <<bucketVars, writes, resumed, names, files, reference_time_modification, prevFailed>>
    /\ UNCHANGED scanVars

\* The while condition fails: the as_completed loop starts.
PlanExit ==
    /\ pc = "plan"
    /\ i >= Len(names)
    /\ pc' = "process"
    /\ UNCHANGED <<bucketVars, writes, resumed, names, files, reference_time_modification, prevFailed>>
    /\ UNCHANGED planVars
    /\ UNCHANGED scanVars

(* ------------------------------ responses ----------------------------- *)

\* What the endTime field of meta.dateRange[0] is like: parsed, or the
\* exception its extraction raises.
TsKinds == {"parsed", "KeyError", "ValueError", "TypeError", "IndexError"}

TsValues == [kind : {"parsed"}, value : 1..MaxTime]
               \cup [kind : TsKinds \ {"parsed"}, value : {0}]

\* The items of data['result'] in key order: m per-domain entries, numbered
\* in response order, and 'meta' at position mp (mp = 0: no 'meta').
Items(m, mp) ==
    [p \in 1..(m + (IF mp > 0 THEN 1 ELSE 0)) |->
        IF mp > 0 /\ p = mp THEN <<"meta", 0>>
        ELSE <<"top", IF mp > 0 /\ p > mp THEN p - 1 ELSE p>>]

HasMeta(items) == \E p \in 1..Len(items) : items[p][1] = "meta"

NoItems == Items(0, 0)

NoTs == [kind |-> "KeyError", value |-> 0]

Resp(t, st, b, su, r, it, ts) ==
    [transport |-> t, status |-> st, body |-> b, success |-> su,
     result |-> r, items |-> it, ts |-> ts]

\* Every answer a request for n domains can end with.
Responses(n) ==
    {Resp("exception", "none", "none", "missing", "missing", NoItems, NoTs),
     Resp("ok", "error", "none", "missing", "missing", NoItems, NoTs),
     Resp("ok", "ok", "garbage", "missing", "missing", NoItems, NoTs),
     Resp("ok", "ok", "json", "missing", "missing", NoItems, NoTs),
     Resp("ok", "ok", "json", "false", "missing", NoItems, NoTs),
     Resp("ok", "ok", "json", "false", "object", NoItems, NoTs),
     Resp("ok", "ok", "json", "true", "missing", NoItems, NoTs),
     Resp("ok", "ok", "json", "true", "null", NoItems, NoTs)}
    \cup {Resp("ok", "ok", "json", "true", "object", Items(m, 0), NoTs) :
             m \in 0..(n + MaxExtra)}
    \cup UNION {UNION {{Resp("ok", "ok", "json", "true", "object", Items(m, mp), ts) :
                           ts \in TsValues} : mp \in 1..(m + 1)} :
                   m \in 0..(n + MaxExtra)}

\* The answers by batch length, computed once.
ResponsesOf == [n \in 0..BATCH_SIZE |-> Responses(n)]

\* Lines 118-125: the exception raised before data = data['result'] is
\* bound, "none" when the response passes.
ValidationRaises(resp) ==
    IF resp.transport = "exception" THEN "RequestException"
    ELSE IF resp.status # "ok" THEN "HTTPError"
    ELSE IF resp.body # "json" THEN "JSONDecodeError"
    ELSE IF resp.success = "missing" THEN "KeyError"
    ELSE IF resp.success # "true" THEN "ValueError"
    ELSE IF resp.result = "missing" THEN "KeyError"
    ELSE "none"

\* Lines 130-131: what evaluating data['meta']['dateRange'][0]['endTime']
\* and strptime raises, "none" when a date comes out.
TimeRaises(resp) ==
    IF resp.result = "null" THEN "TypeError"
    ELSE IF ~HasMeta(resp.items) THEN "KeyError"
    ELSE IF resp.ts.kind = "parsed" THEN "none"
    ELSE resp.ts.kind

\* except (KeyError, ValueError, TypeError)
TimeCaught == {"KeyError", "ValueError", "TypeError"}

\* query.domains[idx], as a 1-based position: enumerate() counts every
\* item, 'meta' included.
DomainAt(items, idx) == idx + 1

RECURSIVE Demux(_, _, _, _, _)
\* Lines 136-141 from item idx (0-based) on: the directory after the writes
\* and whether query.domains[idx] raised IndexError.
Demux(items, idx, domains, fps, fs) ==
    IF idx >= Len(items) THEN [files |-> fs, raised |-> FALSE]
    ELSE IF items[idx + 1][1] = "meta"
    THEN Demux(items, idx + 1, domains, fps, fs)
    ELSE IF DomainAt(items, idx) > Len(domains)
    THEN [files |-> fs, raised |-> TRUE]
    ELSE LET domain == domains[DomainAt(items, idx)]
         IN Demux(items, idx + 1, domains, fps,
                  WriteFile(fs, fps[domain], {<<domain, items[idx + 1][2]>>}))

RECURSIVE DemuxWrites(_, _, _, _)
\* Lines 136-140 from item idx on: the paths opened for writing, as a bag.
DemuxWrites(items, idx, domains, fps) ==
    IF idx >= Len(items) THEN EmptyBag
    ELSE IF items[idx + 1][1] = "meta"
    THEN DemuxWrites(items, idx + 1, domains, fps)
    ELSE IF DomainAt(items, idx) > Len(domains)
    THEN EmptyBag
    ELSE SetToBag({fps[domains[DomainAt(items, idx)]]})
             (+) DemuxWrites(items, idx + 1, domains, fps)

\* The modification time taken from every response.
TimeUnsetAlways(ref) == TRUE

\* if not self.reference['reference_time_modification']
TimeUnset(ref) == ref = 0

\* The try block of the as_completed loop for one response: the directory
\* and reference time after it, whether a warning was logged and whether an
\* exception reached "except Exception".
TryBlock(resp, q, ref, fs) ==
    IF ValidationRaises(resp) # "none"
    THEN [files |-> fs, failed |-> TRUE, warned |-> FALSE, ref |-> ref,
          written |-> EmptyBag]
    ELSE LET tr == IF TimeUnset(ref) THEN TimeRaises(resp) ELSE "skipped"
             ref2 == IF tr = "none" THEN resp.ts.value ELSE ref
             warned == tr \in TimeCaught
         IN IF tr \notin TimeCaught \cup {"none", "skipped"}
            THEN [files |-> fs, failed |-> TRUE, warned |-> FALSE, ref |-> ref,
                  written |-> EmptyBag]
            ELSE IF resp.result = "null"
            THEN \* data.items() on None
                 [files |-> fs, failed |-> TRUE, warned |-> warned, ref |-> ref2,
                  written |-> EmptyBag]
            ELSE LET d == Demux(resp.items, 0, q.domains, q.fpaths, fs)
                 IN [files |-> d.files, failed |-> d.raised,
                     warned |-> warned, ref |-> ref2,
                     written |-> DemuxWrites(resp.items, 0, q.domains, q.fpaths)]

\* The failure logged twice.
LogErrorTwice(errs, q) == [errs EXCEPT ![q] = @ + 2]

\* logging.error(f'Failed to fetch data for domains: ...')
LogError(errs, q) == [errs EXCEPT ![q] = @ + 1]

\* break in place of continue.
AfterTaskBreak(failed) == IF failed THEN "scan" ELSE "process"

\* except Exception ... continue: the loop goes on whatever was raised.
AfterTask(failed) == "process"

(* ------------------------------ fetcher ------------------------------- *)

\* A worker thread takes request q from the queue and sends it.
Start(q) ==
    /\ pc \in {"plan", "process"}
    /\ q \in Take(qstate)
    /\ WorkerFree(qstate)
    /\ qstate' = [qstate EXCEPT ![q] = "inflight"]
    /\ UNCHANGED <<bucketVars, writes, resumed, pc, names, files, i, batch, fpaths, queries, retries,
                   errors, warnings, reference_time_modification, prevFailed>>
    /\ UNCHANGED scanVars

\* One retry more than configured.
RetriesLeftOffByOne(n) == n <= RETRY_TOTAL

\* Retry(total=...): the retries made so far leave another one.
RetriesLeft(n) == n < RETRY_TOTAL

\* status_forcelist=[500, 502, 503, 504]: the request of q is answered with
\* one of these and the transport sends it again.
Retry(q) ==
    /\ pc \in {"plan", "process"}
    /\ q \in 1..Len(queries)
    /\ qstate[q] = "inflight"
    /\ RetriesLeft(retries[q])
    /\ retries' = [retries EXCEPT ![q] = @ + 1]
    /\ UNCHANGED <<bucketVars, writes, resumed, pc, names, files, i, batch, fpaths, queries, qstate,
                   errors, warnings, reference_time_modification, prevFailed>>
    /\ UNCHANGED scanVars

\* The request of q is answered with a retryable status once more with no
\* retry left: the future is done with a RetryError.
Exhaust(q) ==
    /\ pc \in {"plan", "process"}
    /\ q \in 1..Len(queries)
    /\ qstate[q] = "inflight"
    /\ ~RetriesLeft(retries[q])
    /\ qstate' = [qstate EXCEPT ![q] = "exhausted"]
    /\ retries' = [retries EXCEPT ![q] = 0]
    /\ UNCHANGED <<bucketVars, writes, resumed, pc, names, files, i, batch, fpaths, queries, errors,
                   warnings, reference_time_modification, prevFailed>>
    /\ UNCHANGED scanVars

\* The request of q finishes in its worker thread with an answer that is
\* not retried: a 401, or anything else.
Complete(q) ==
    /\ pc \in {"plan", "process"}
    /\ q \in 1..Len(queries)
    /\ qstate[q] = "inflight"
    /\ \E outcome \in {"completed", "unauthorized"} :
          qstate' = [qstate EXCEPT ![q] = outcome]
    /\ retries' = [retries EXCEPT ![q] = 0]
    /\ UNCHANGED <<bucketVars, writes, resumed, pc, names, files, i, batch, fpaths, queries, errors,
                   warnings, reference_time_modification, prevFailed>>
    /\ UNCHANGED scanVars

\* The responses query.result() can give for a future that is done.
Admits(state, resp) ==
    CASE state = "exhausted" -> resp.transport = "exception"
      [] state = "unauthorized" -> resp.transport = "ok" /\ resp.status = "error"
      [] OTHER -> TRUE

\* Responses handled as soon as they arrive.
LoopEnteredEarly(p) == p \in {"plan", "process"}

\* "for query in as_completed(queries)" follows the planning loop.
LoopEntered(p) == p = "process"

\* One iteration of "for query in as_completed(queries)" with response resp.
ProcessWith(q, resp) ==
    /\ LoopEntered(pc)
    /\ q \in 1..Len(queries)
    /\ qstate[q] \in Finished
    /\ Admits(qstate[q], resp)
    /\ LET t == TryBlock(resp, queries[q], reference_time_modification, files)
       IN /\ files' = t.files
          /\ writes' = writes (+) t.written
          /\ reference_time_modification' = t.ref
          /\ warnings' = IF t.warned THEN [warnings EXCEPT ![q] = @ + 1]
                         ELSE warnings
          /\ errors' = IF t.failed THEN LogError(errors, q) ELSE errors
          /\ qstate' = [qstate EXCEPT ![q] = IF t.failed THEN "failed" ELSE "ok"]
          /\ pc' = AfterTask(t.failed)
    /\ UNCHANGED <<bucketVars, resumed, names, i, batch, fpaths, queries, retries,
                   prevFailed>>
    /\ UNCHANGED scanVars

Process ==
    \E q \in 1..Len(queries) :
        \E resp \in ResponsesOf[Len(queries[q].domains)] : ProcessWith(q, resp)

CompleteSome == \E q \in 1..Len(queries) : Complete(q)

StartSome == \E q \in 1..Len(queries) : Start(q)

RetrySome == \E q \in 1..Len(queries) : Retry(q)

ExhaustSome == \E q \in 1..Len(queries) : Exhaust(q)

\* The loop left as soon as no request is in flight.
AllCompleted == \A q \in 1..Len(queries) : qstate[q] \notin {"queued", "inflight"}

\* as_completed(queries) has yielded every future and each was processed.
AllProcessed == \A q \in 1..Len(queries) : qstate[q] \in {"ok", "failed"}

\* as_completed is exhausted: fetch() returns to run().
FetchReturn ==
    /\ pc = "process"
    /\ AllProcessed
    /\ pc' = "scan"
    /\ UNCHANGED <<bucketVars, writes, resumed, names, files, reference_time_modification, prevFailed>>
    /\ UNCHANGED planVars
    /\ UNCHANGED scanVars

(* ------------------------------ assembler ----------------------------- *)

\* entry.is_file() and entry.name.endswith('.json')
IsJsonFile(fs, p) == fs[p].exists /\ p[Len(p)] = ".json"

DirEntries(fs) == {p \in AllPaths : fs[p].exists}

\* No item passed on.
ComputeLinksNone(done, content) == done

\* compute_link(domain_top) for every item of one file.
ComputeLinks(done, content) == done (+) SetToBag(content)

\* The file read as an empty object.
SkipScanEntry(fs, p) == {}

\* json.load(fp) of an entry that passed the filter.
LoadEntry(fs, p) == fs[p].content

\* map_links() called from inside the loop.
ScanOverEarly(fs, sc) == TRUE

\* "for entry in os.scandir(tmp_dir)" has no entry left.
ScanOver(fs, sc) == DirEntries(fs) \subseteq sc

\* os.scandir yields one more entry, in whatever order the directory has.
ScanEntry ==
    /\ pc = "scan"
    /\ \E p \in DirEntries(files) \ scanned :
          /\ scanned' = scanned \cup {p}
          /\ computed' = IF IsJsonFile(files, p) /\ LoadEntry(files, p) # {}
                         THEN ComputeLinks(computed, LoadEntry(files, p))
                         ELSE computed
    /\ UNCHANGED <<bucketVars, writes, resumed, pc, names, files, reference_time_modification,
                   prevFailed, mapCalls, addCalls>>
    /\ UNCHANGED planVars

\* The scan is over: self.map_links()
MapLinks ==
    /\ pc = "scan"
    /\ ScanOver(files, scanned)
    /\ mapCalls' = mapCalls + 1
    /\ pc' = "submit"
    /\ UNCHANGED <<bucketVars, writes, resumed, names, files, reference_time_modification, prevFailed,
                   scanned, computed, addCalls>>
    /\ UNCHANGED planVars

\* self.iyp.batch_add_links('QUERIED_FROM', self.links)
AddLinks ==
    /\ pc = "submit"
    /\ addCalls' = addCalls + 1
    /\ pc' = "done"
    /\ UNCHANGED <<bucketVars, writes, resumed, names, files, reference_time_modification, prevFailed,
                   scanned, computed, mapCalls>>
    /\ UNCHANGED planVars

FailedNames ==
    UNION {Range(queries[q].domains) : q \in {k \in 1..Len(queries) : qstate[k] = "failed"}}

\* The next scheduled run: a new crawler object over the same names.
NewRun ==
    /\ pc = "done"
    /\ resumed' = TRUE
    /\ pc' = "start"
    /\ prevFailed' = FailedNames
    /\ names' = SortedList(Range(names))
    /\ reference_time_modification' = 0
    /\ i' = 0
    /\ batch' = <<>>
    /\ fpaths' = EmptyDict
    /\ queries' = <<>>
    /\ qstate' = <<>>
    /\ retries' = <<>>
    /\ errors' = <<>>
    /\ warnings' = <<>>
    /\ scanned' = {}
    /\ computed' = EmptyBag
    /\ mapCalls' = 0
    /\ addCalls' = 0
    /\ writes' = EmptyBag
    /\ UNCHANGED <<files, bucketVars>>

Next ==
    \/ StartFetch
    \/ PlanIter
    \/ PlanExit
    \/ StartSome
    \/ RetrySome
    \/ ExhaustSome
    \/ CompleteSome
    \/ Process
    \/ FetchReturn
    \/ ScanEntry
    \/ MapLinks
    \/ AddLinks
    \/ NewRun

Spec == Init /\ [][Next]_vars

(* ------------------------- fetch() on its own -------------------------- *)

\* fetch() from its call to its return.
NextFetch ==
    \/ StartFetch
    \/ PlanIter
    \/ PlanExit
    \/ StartSome
    \/ RetrySome
    \/ ExhaustSome
    \/ CompleteSome
    \/ Process
    \/ FetchReturn

\* fetch() with its threads scheduled: the main thread and the worker threads
\* keep running and every request sent is answered, so some step of fetch()
\* is taken as long as one is possible.
SpecLive == Init /\ [][NextFetch]_vars /\ WF_vars(NextFetch)

(* ------------------------- planner on its own -------------------------- *)

\* The planning loop with the directory contents as its input: os.path.exists
\* reads the file system, so the loop is checked for every set of record
\* files the directory may hold when the loop starts.
InitPlanner ==
    /\ resumed = FALSE
    /\ pc = "plan"
    /\ \E C \in SUBSET AllNames :
          files = [p \in AllPaths |->
                     IF \E n \in C : p = Fpath(n)
                     THEN PriorRecord(CHOOSE n \in C : p = Fpath(n))
                     ELSE NoFile]
    /\ prevFailed = {}
    /\ \E S \in NameSets : Construct(S)
    /\ BucketIdle(<<>>)

NextPlanner == PlanIter \/ PlanExit

SpecPlanner == InitPlanner /\ [][NextPlanner]_vars

(* ------------------- ranking_bucket.py: Crawler.run ------------------- *)

\* Dataset ids of the listing, in listing order.
BucketIds == <<"r1", "r2", "r3", "r4">>

\* Domain names a dataset file may list.
BucketDomains == {"a", "b"}

\* What a dataset of the listing carries under 'meta': targetDateEnd and
\* top ("dated", with the date as `end`), top without a parseable
\* targetDateEnd ("undated"), or no 'meta' at all ("missing").
DatasetsAt(k) ==
    [id : {BucketIds[k]}, meta : {"dated"}, end : 1..MaxTime]
        \cup [id : {BucketIds[k]}, meta : {"undated", "missing"}, end : {0}]

\* The listings the datasets request may return.
Listings ==
    UNION {{ds \in [1..n -> UNION {DatasetsAt(k) : k \in 1..n}] :
               \A k \in 1..n : ds[k] \in DatasetsAt(k)} : n \in 0..MaxDatasets}

RECURSIVE SeqsUpTo(_, _)
\* The sequences over S of length n or less.
SeqsUpTo(S, n) ==
    IF n = 0 THEN {<<>>}
    ELSE LET shorter == SeqsUpTo(S, n - 1)
         IN shorter \cup {Append(sq, x) : sq \in shorter, x \in S}

\* req.text.splitlines() of a download: nothing, or a header line and lines
\* of domain names.
Texts == {<<>>} \cup {<<"domain">> \o sq : sq \in SeqsUpTo(BucketDomains, MaxLines)}

\* req_session.post(URL_DL, ...): an exception of the transport, or a
\* response with a status and a body that holds result.dataset.url or not.
UrlAnswers ==
    [raised : {TRUE}, status : {0}, url : {FALSE}]
        \cup [raised : {FALSE}, status : {200, 401, 404}, url : BOOLEAN]

\* requests.get(dataset['url']): an exception or a response.
FileAnswers ==
    [raised : {TRUE}, status : {0}, text : {<<>>}]
        \cup [raised : {FALSE}, status : {200, 404, 500}, text : Texts]

\* The loop left at the first failure.
BreakLoop(idx, n) == n

\* continue: the loop goes on with the next dataset.
ContinueLoop(idx, n) == idx + 1

\* set(req.text.splitlines()[1:])
DatasetDomains(text) == IF text = <<>> THEN {} ELSE Range(Tail(text))

\* The id of the DomainName node of a name.
DomainNode(d) == <<"DomainName", d>>

\* get_node('Ranking', {'name': f'Cloudflare {title}', ...}, id_properties={'name'})
RankingNode(id) == <<"Ranking", "Cloudflare", id>>

\* Lines 66-74: the modification time after the dataset was looked at.
BucketTime(ref, dataset) ==
    IF ref = 0 /\ dataset.meta = "dated" THEN dataset.end ELSE ref

\* One iteration of "for dataset in datasets_json['result']['datasets']".
FetchDataset ==
    /\ bpc = "fetch"
    /\ bidx < Len(listing)
    /\ LET dataset == listing[bidx + 1]
       IN /\ reference_time_modification' =
                 BucketTime(reference_time_modification, dataset)
          /\ \E ua \in UrlAnswers : \E fa \in FileAnswers :
                IF ua.raised
                THEN \* req_session.post raises
                     /\ bpc' = "raised"
                     /\ UNCHANGED <<bidx, datasets, all_domains, skipped, downloaded>>
                ELSE IF ua.status # 200
                THEN \* Cannot get url for dataset: continue
                     /\ bidx' = ContinueLoop(bidx, Len(listing))
                     /\ skipped' = skipped \cup {dataset.id}
                     /\ UNCHANGED <<bpc, datasets, all_domains, downloaded>>
                ELSE IF ~ua.url \/ fa.raised
                THEN \* req.json()['result']['dataset']['url'] or requests.get raises
                     /\ bpc' = "raised"
                     /\ UNCHANGED <<bidx, datasets, all_domains, skipped, downloaded>>
                ELSE IF fa.status # 200
                THEN \* Cannot download dataset: continue
                     /\ bidx' = ContinueLoop(bidx, Len(listing))
                     /\ skipped' = skipped \cup {dataset.id}
                     /\ UNCHANGED <<bpc, datasets, all_domains, downloaded>>
                ELSE /\ bidx' = bidx + 1
                     /\ all_domains' = all_domains \cup DatasetDomains(fa.text)
                     /\ datasets' = Append(datasets,
                            [dataset |-> dataset, domains |-> DatasetDomains(fa.text)])
                     /\ downloaded' =
                            [d \in DOMAIN downloaded \cup {dataset.id} |->
                                IF d = dataset.id THEN fa.text ELSE downloaded[d]]
                     /\ UNCHANGED <<bpc, skipped>>
    /\ UNCHANGED <<listing, domain_ids, ridx, rankCalls, rankLinks>>
    /\ UNCHANGED <<resumed, pc, names, files, writes, prevFailed>>
    /\ UNCHANGED planVars
    /\ UNCHANGED scanVars

\* The first loop is over: iyp.batch_get_nodes_by_single_prop(...)
GetNodes ==
    /\ bpc = "fetch"
    /\ bidx >= Len(listing)
    /\ domain_ids' = [d \in all_domains |-> DomainNode(d)]
    /\ bpc' = "rank"
    /\ UNCHANGED <<listing, bidx, datasets, all_domains, ridx, rankCalls, rankLinks,
                   skipped, downloaded>>
    /\ UNCHANGED <<resumed, pc, names, files, writes, prevFailed,
                   reference_time_modification>>
    /\ UNCHANGED planVars
    /\ UNCHANGED scanVars

\* One iteration of "for dataset, domains in datasets".
RankDataset ==
    /\ bpc = "rank"
    /\ ridx < Len(datasets)
    /\ LET dataset == datasets[ridx + 1].dataset
           domains == datasets[ridx + 1].domains
           domain_links == {<<domain_ids[domain], RankingNode(dataset.id)>> :
                               domain \in domains}
       IN IF dataset.meta = "missing"
          THEN \* dataset['meta']['top'] raises KeyError
               /\ bpc' = "raised"
               /\ UNCHANGED <<ridx, rankCalls, rankLinks>>
          ELSE /\ ridx' = ridx + 1
               /\ bpc' = "rank"
               /\ IF domain_links # {}
                  THEN /\ rankCalls' = rankCalls + 1
                       /\ rankLinks' = rankLinks (+) SetToBag(domain_links)
                  ELSE UNCHANGED <<rankCalls, rankLinks>>
    /\ UNCHANGED <<listing, bidx, datasets, all_domains, domain_ids, skipped, downloaded>>
    /\ UNCHANGED <<resumed, pc, names, files, writes, prevFailed,
                   reference_time_modification>>
    /\ UNCHANGED planVars
    /\ UNCHANGED scanVars

\* The second loop is over: run() returns.
RankReturn ==
    /\ bpc = "rank"
    /\ ridx >= Len(datasets)
    /\ bpc' = "done"
    /\ UNCHANGED <<listing, bidx, datasets, all_domains, domain_ids, ridx, rankCalls,
                   rankLinks, skipped, downloaded>>
    /\ UNCHANGED <<resumed, pc, names, files, writes, prevFailed,
                   reference_time_modification>>
    /\ UNCHANGED planVars
    /\ UNCHANGED scanVars

\* run() from the point where the listing has been fetched and validated.
InitBucket ==
    /\ resumed = FALSE
    /\ pc = "start"
    /\ files = EmptyDir
    /\ prevFailed = {}
    /\ Construct({})
    /\ \E ds \in Listings : BucketIdle(ds)

NextBucket ==
    \/ FetchDataset
    \/ GetNodes
    \/ RankDataset
    \/ RankReturn

SpecBucket == InitBucket /\ [][NextBucket]_vars

(* ------------------------------ claims --------------------------------- *)

Tasks == 1..Len(queries)

\* The (task, position) pairs at which name n was requested.
IssuedAt(n) ==
    {qk \in Tasks \X (1..BATCH_SIZE + 1) :
        qk[2] <= Len(queries[qk[1]].domains) /\ queries[qk[1]].domains[qk[2]] = n}

HasRecord(fs, n) == fs[Fpath(n)].exists

RECURSIVE Flatten(_)
Flatten(qs) == IF qs = <<>> THEN <<>> ELSE Head(qs).domains \o Flatten(Tail(qs))

CeilDiv(n, b) == (n + b - 1) \div b

\* C1 (idempotent resumability): a name whose cache file exists when the
\* planning loop examines it is in no issued request and not in the batch
\* under construction.
C1_CachedNeverIssued ==
    \A n \in Range(names) :
        HasRecord(files, n) => IssuedAt(n) = {} /\ n \notin Range(batch)

\* C1 witness: planning is over, requests were issued, and a cached name of
\* the list was passed over.
C1_Witness ==
    /\ pc = "process"
    /\ Len(queries) > 0
    /\ \E n \in Range(names) : HasRecord(files, n) /\ IssuedAt(n) = {}

\* C2 (planner completeness): after planning, every name without a cache
\* file is in exactly one issued request.
C2_EveryUncachedIssuedOnce ==
    pc = "process" =>
        \A n \in Range(names) :
            ~HasRecord(files, n) => Cardinality(IssuedAt(n)) = 1

\* C3 (batch completeness): with no cache file for any name, planning N
\* names issues ceil(N / BATCH_SIZE) requests, all of BATCH_SIZE names
\* except possibly the last, none empty, whose concatenation is the sorted
\* name list; no names, no requests.
C3_BatchCompleteness ==
    (pc = "process" /\ \A n \in Range(names) : ~HasRecord(files, n)) =>
        /\ Len(queries) = CeilDiv(Len(names), BATCH_SIZE)
        /\ \A q \in Tasks :
              /\ Len(queries[q].domains) >= 1
              /\ Len(queries[q].domains) <= BATCH_SIZE
              /\ q < Len(queries) => Len(queries[q].domains) = BATCH_SIZE
        /\ Flatten(queries) = names
        /\ names = <<>> => queries = <<>>

\* C3 witness: an uncached list was planned into several requests, the last
\* one shorter than BATCH_SIZE.
C3_Witness ==
    /\ pc = "process"
    /\ \A n \in Range(names) : ~HasRecord(files, n)
    /\ Len(queries) >= 2
    /\ Len(queries[Len(queries)].domains) < BATCH_SIZE
    /\ Len(queries[1].domains) = BATCH_SIZE

\* The per-domain entries of a response, in order.
Entries(resp) == {p \in 1..Len(resp.items) : resp.items[p][1] # "meta"}

\* The API answered with one entry per requested domain.
FullResponse(resp, q) ==
    /\ resp.transport = "ok" /\ resp.status = "ok" /\ resp.body = "json"
    /\ resp.success = "true" /\ resp.result = "object"
    /\ Cardinality(Entries(resp)) = Len(queries[q].domains)

\* Record k of task q holds the k-th entry under the k-th domain.
RightRecord(fs, q, k) ==
    fs[Fpath(queries[q].domains[k])] = File({<<queries[q].domains[k], k>>})

\* A step that processes the response of task q.
Processed(q) ==
    pc = "process" /\ qstate[q] \in Finished /\ qstate'[q] \in {"ok", "failed"}

\* Nothing of task r changes in a step.
TaskUntouched(r) ==
    /\ qstate'[r] = qstate[r]
    /\ errors'[r] = errors[r]
    /\ \A d \in Range(queries[r].domains) : files'[Fpath(d)] = files[Fpath(d)]

\* C4 (failure isolation): processing one response leaves every other task
\* as it was and the loop running, whatever the outcome; a task that gets a
\* full response and is not logged as failed has the right record for each
\* of its names; no request is added while responses are processed, and
\* fetch() returns only when every request has been processed.
C4_FailureIsolation ==
    /\ [][\A q \in Tasks :
            Processed(q) =>
                /\ pc' = "process"
                /\ queries' = queries
                /\ \A r \in Tasks \ {q} : TaskUntouched(r)
                /\ qstate'[q] = "ok" =>
                      \A resp \in ResponsesOf[Len(queries[q].domains)] :
                          (FullResponse(resp, q) /\ ProcessWith(q, resp)) =>
                              \A k \in 1..Len(queries[q].domains) :
                                  RightRecord(files', q, k)]_vars
    /\ [](pc \in {"scan", "submit", "done"} =>
             \A q \in Tasks : qstate[q] \in {"ok", "failed"})

\* C4 witness: fetch() has returned, one task was logged as failed and
\* another one has the right record for each of its names.
C4_Witness ==
    /\ pc = "scan"
    /\ \E q1 \in Tasks : \E q2 \in Tasks :
          /\ qstate[q1] = "failed"
          /\ qstate[q2] = "ok"
          /\ \A k \in 1..Len(queries[q2].domains) : RightRecord(files, q2, k)

\* A non-success status, success=false, or no 'result' field.
RejectedResponse(resp) ==
    /\ resp.transport = "ok"
    /\ \/ resp.status # "ok"
       \/ resp.body = "json" /\ resp.success = "false"
       \/ resp.body = "json" /\ resp.success = "true" /\ resp.result = "missing"

\* C5 (rejected batch): processing a response with a non-success status,
\* success=false or no 'result' writes no file, leaves the records of the
\* batch absent, logs exactly one error for the task, and the loop goes on
\* to the remaining tasks.
C5_RejectedBatch ==
    [][\A q \in Tasks :
          Processed(q) =>
              \A resp \in ResponsesOf[Len(queries[q].domains)] :
                  (RejectedResponse(resp) /\ ProcessWith(q, resp)) =>
                      /\ files' = files
                      /\ \A d \in Range(queries[q].domains) : ~HasRecord(files', d)
                      /\ errors[q] = 0 /\ errors'[q] = 1
                      /\ qstate'[q] = "failed"
                      /\ pc' = "process"]_vars

\* C5 witness: fetch() has returned with a task logged once as failed that
\* has no record, next to a task that succeeded.
C5_Witness ==
    /\ pc = "scan"
    /\ \E q \in Tasks :
          /\ qstate[q] = "failed"
          /\ errors[q] = 1
          /\ \A d \in Range(queries[q].domains) : ~HasRecord(files, d)
    /\ \E q \in Tasks : qstate[q] = "ok"

\* The payloads a record can hold.
Payloads == 0..(BATCH_SIZE + MaxExtra)

C7_RecordsKept ==
    [][\A p \in AllPaths : files[p].exists => files'[p].exists]_vars

\* C8 (resumption): the requests a later run issues hold exactly the names
\* of the batches the run before logged as failed.
C8_ResumeOnlyFailed ==
    (resumed /\ pc = "process") =>
        {n \in Range(names) : IssuedAt(n) # {}} = prevFailed

\* A successful response with one entry per domain, a 'meta' entry at some
\* position and a parseable endTime.
WellFormed(resp, q) ==
    /\ FullResponse(resp, q)
    /\ HasMeta(resp.items)
    /\ resp.ts.kind = "parsed"

\* C9 (positional demultiplexing): processing a well-formed response writes
\* the k-th per-domain entry to the record of the k-th domain of the batch.
C9_PositionalDemux ==
    [][\A q \in Tasks : \A resp \in ResponsesOf[Len(queries[q].domains)] :
          (Processed(q) /\ WellFormed(resp, q) /\ ProcessWith(q, resp)) =>
              \A k \in 1..Len(queries[q].domains) : RightRecord(files', q, k)]_vars

\* C10 (all-or-nothing): a task logged as failed has no record for any of
\* its names.
C10_FailedLeavesNothing ==
    \A q \in Tasks :
        qstate[q] = "failed" =>
            \A d \in Range(queries[q].domains) : ~HasRecord(files, d)

\* 'meta' is absent or the last item, so every per-domain entry sits at the
\* position of its domain.
MetaNotBefore(resp) ==
    \A p \in 1..Len(resp.items) : resp.items[p][1] = "meta" => p = Len(resp.items)

\* A full response from which no modification time can be extracted: 'meta'
\* or a field under it missing, of the wrong type, unparseable, or dateRange
\* an empty list.
TimeUnreadable(resp, q) ==
    /\ FullResponse(resp, q)
    /\ MetaNotBefore(resp)
    /\ TimeRaises(resp) # "none"

\* C11 (timestamp failure is not fatal): processing a full response whose
\* modification time cannot be extracted logs a warning, leaves
\* reference_time_modification unset, does not log the task as failed and
\* writes the record of every name of the task.
C11_TimeFailureNotFatal ==
    [][\A q \in Tasks : \A resp \in ResponsesOf[Len(queries[q].domains)] :
          (Processed(q) /\ reference_time_modification = 0
              /\ TimeUnreadable(resp, q) /\ ProcessWith(q, resp)) =>
              /\ warnings'[q] = warnings[q] + 1
              /\ reference_time_modification' = 0
              /\ qstate'[q] = "ok"
              /\ \A k \in 1..Len(queries[q].domains) : RightRecord(files', q, k)]_vars

\* A response that passes validation and carries a parseable endTime.
TimeReadable(resp) == ValidationRaises(resp) = "none" /\ TimeRaises(resp) = "none"

\* C12 (modification time assigned once): within one run a set
\* reference_time_modification is never changed, whichever response is
\* processed next; it becomes set only by processing a response, and the
\* first processed response with a parseable endTime sets it to that time.
C12_TimeSetOnce ==
    [][/\ (reference_time_modification # 0 /\ pc # "done") =>
              reference_time_modification' = reference_time_modification
       /\ (reference_time_modification = 0 /\ reference_time_modification' # 0) =>
              \E q \in Tasks : Processed(q)
       /\ \A q \in Tasks :
              (Processed(q) /\ reference_time_modification = 0) =>
                  \A resp \in ResponsesOf[Len(queries[q].domains)] :
                      (TimeReadable(resp) /\ ProcessWith(q, resp)) =>
                          reference_time_modification' = resp.ts.value]_vars

\* C12 witness: the modification time is set and a response was processed
\* successfully after the one that set it.
C12_Witness ==
    /\ pc = "process"
    /\ reference_time_modification # 0
    /\ \E q \in Tasks : \E r \in Tasks :
          q # r /\ qstate[q] = "ok" /\ qstate[r] = "ok" /\ warnings[r] = 0

\* run() is past fetch().
ScanStarted == pc \in {"scan", "submit", "done"}

\* C13 (fetch/assemble barrier): whenever the directory scan has started,
\* every request the planner issued has finished and has been processed; and
\* from the start of the scan to the end of the run no file of the cache
\* directory is written.
C13_FetchAssembleBarrier ==
    /\ [](ScanStarted =>
             \A q \in Tasks :
                   /\ qstate[q] \in {"ok", "failed"}
                   /\ errors[q] = IF qstate[q] = "failed" THEN 1 ELSE 0)
    /\ [][ScanStarted => files' = files]_vars

\* C13 witness: the scan is under way after several requests were
\* processed, one of them logged as failed.
C13_Witness ==
    /\ pc = "scan"
    /\ scanned # {}
    /\ Len(queries) >= 2
    /\ \E q \in Tasks : qstate[q] = "failed"

\* C14 (hooks after the scan): neither compute_link nor map_links is
\* called while a record of the directory has not been read.
C14_HooksAfterAllRead ==
    [][(pc = "scan" /\ (computed' # computed \/ mapCalls' # mapCalls)) =>
           DirEntries(files) \subseteq scanned']_vars

\* C14, amended: map_links is called only when every record of the
\* directory has been read; compute_link is called with the items of the
\* record that has just been read, other records possibly still unread.
C14_MapAfterAllRead ==
    [][/\ (pc = "scan" /\ mapCalls' # mapCalls) =>
              /\ DirEntries(files) \subseteq scanned
              /\ computed' = computed
       /\ (pc = "scan" /\ computed' # computed) =>
              /\ mapCalls' = mapCalls /\ mapCalls = 0
              /\ \E p \in DirEntries(files) \ scanned :
                    /\ scanned' = scanned \cup {p}
                    /\ computed' = computed (+) SetToBag(files[p].content)]_vars

\* C14 witness: compute_link has been called, a record is still unread and
\* map_links has not been called.
C14_Witness ==
    /\ pc = "scan"
    /\ computed # EmptyBag
    /\ DirEntries(files) \ scanned # {}
    /\ mapCalls = 0

\* C15 (one submission per run): batch_add_links is called once, at the end
\* of the run and after the one call of map_links; map_links is called
\* after every record of the directory was read and each of its items
\* passed to compute_link once; neither is called while a request is
\* unfinished or unprocessed.
C15_SingleSubmission ==
    /\ addCalls = (IF pc = "done" THEN 1 ELSE 0)
    /\ mapCalls = (IF pc \in {"submit", "done"} THEN 1 ELSE 0)
    /\ mapCalls = 1 =>
          /\ DirEntries(files) \subseteq scanned
          /\ \A p \in DirEntries(files) : \A e \in files[p].content :
                CopiesIn(e, computed) = 1
          /\ \A q \in Tasks : qstate[q] \in {"ok", "failed"}

\* C15 witness: the run is over with its one submission, made from the
\* records of the tasks that succeeded while another task had failed.
C15_Witness ==
    /\ pc = "done"
    /\ addCalls = 1
    /\ BagCardinality(computed) >= 2
    /\ \E q \in Tasks : qstate[q] = "failed"

\* The cache files task q targets.
TargetsOf(q) == {queries[q].fpaths[d] : d \in DOMAIN queries[q].fpaths}

\* C16 (single writer per key): no name is in two requests or twice in one,
\* no two names of the run target the same cache file, and within a run no
\* cache file is opened for writing more than once.
C16_SingleWriter ==
    /\ \A n \in AllNames : Cardinality(IssuedAt(n)) <= 1
    /\ \A q \in Tasks : \A r \in Tasks : q # r => TargetsOf(q) \cap TargetsOf(r) = {}
    /\ \A q \in Tasks :
          /\ DOMAIN queries[q].fpaths = Range(queries[q].domains)
          /\ Cardinality(TargetsOf(q)) = Len(queries[q].domains)
    /\ \A p \in AllPaths : CopiesIn(p, writes) <= 1

\* C16 witness: two tasks have written their records, in either order of
\* completion.
C16_Witness ==
    /\ pc = "scan"
    /\ \E q \in Tasks : \E r \in Tasks :
          /\ q # r
          /\ \A p \in TargetsOf(q) \cup TargetsOf(r) : CopiesIn(p, writes) = 1

\* The most requests a run issues.
MaxTasks == CeilDiv(MaxNames, BATCH_SIZE)

\* C17 (every task ends and is processed once): a request handed to the
\* executor is eventually processed; the transport retries it at most
\* RETRY_TOTAL times and only then gives up; a request given up is logged
\* as failed when processed; a finished request is never in flight again
\* and a processed one never changes again within the run.
C17_EveryTaskProcessedOnce ==
    /\ \A q \in 1..MaxTasks :
          (q \in Tasks /\ qstate[q] \in {"queued", "inflight"})
              ~> (q \in Tasks /\ qstate[q] \in {"ok", "failed"})
    /\ [](\A q \in Tasks : retries[q] <= RETRY_TOTAL)
    /\ [][pc # "done" =>
            \A q \in Tasks :
                /\ retries'[q] > retries[q] =>
                      /\ retries'[q] = retries[q] + 1
                      /\ qstate[q] = "inflight" /\ qstate'[q] = "inflight"
                /\ (qstate[q] = "queued" /\ qstate'[q] # "queued") =>
                      qstate'[q] = "inflight" /\ WorkerFree(qstate)
                /\ (qstate[q] # "exhausted" /\ qstate'[q] = "exhausted") =>
                      qstate[q] = "inflight" /\ retries[q] = RETRY_TOTAL
                /\ (Processed(q) /\ qstate[q] = "exhausted") =>
                      /\ qstate'[q] = "failed"
                      /\ errors'[q] = errors[q] + 1
                      /\ files' = files
                /\ qstate[q] \in Finished => qstate'[q] \in {qstate[q], "ok", "failed"}
                /\ qstate[q] \in {"ok", "failed"} =>
                      /\ qstate'[q] = qstate[q]
                      /\ errors'[q] = errors[q]
                      /\ queries'[q] = queries[q]]_vars

\* C17 witness: the transport has given up on one request after its last
\* retry while another request has been processed successfully.
C17_Witness ==
    /\ pc = "process"
    /\ \E q \in Tasks : \E r \in Tasks :
          qstate[q] = "exhausted" /\ qstate[r] = "ok"

\* Every request that has finished so far failed with a 401, and one did.
AuthFailure(qs) ==
    /\ \E q \in 1..Len(qs) : qs[q] = "unauthorized"
    /\ \A q \in 1..Len(qs) : qs[q] \in {"queued", "inflight", "unauthorized"}

\* C18 (early abort): while every finished request has failed with a 401,
\* no further request is created and no waiting request is sent.
C18_EarlyAbort ==
    [][AuthFailure(qstate) =>
           /\ Len(queries') = Len(queries)
           /\ \A q \in Tasks : qstate[q] = "queued" => qstate'[q] = "queued"]_vars

\* C19 (stable cache snapshot): while the planning loop runs, no response
\* is processed and no file of the cache directory changes, although
\* requests are sent and answered meanwhile; once a response is processed,
\* no request is created any more.
C19_StableSnapshot ==
    /\ [](pc = "plan" =>
             /\ writes = EmptyBag
             /\ \A q \in Tasks : qstate[q] \notin {"ok", "failed"})
    /\ [][pc = "plan" =>
             /\ files' = files
             /\ \A q \in Tasks : qstate'[q] \notin {"ok", "failed"}]_vars
    /\ []((\E q \in Tasks : qstate[q] \in {"ok", "failed"}) =>
             /\ pc # "plan"
             /\ i >= Len(names))
    /\ [][(\E q \in Tasks : qstate[q] \in {"ok", "failed"}) /\ pc # "done" =>
             queries' = queries]_vars

\* C19 witness: the planning loop is still running while a request it
\* issued has already been answered.
C19_Witness ==
    /\ pc = "plan"
    /\ i < Len(names)
    /\ \E q \in Tasks : qstate[q] \in Finished
    /\ \E q \in Tasks : qstate[q] = "inflight"

\* The ids of the listing.
ListedIds == {listing[k].id : k \in 1..Len(listing)}

\* The RANK links due: one per dataset that was downloaded and domain on a
\* line after the header line of its file.
LinksDue ==
    UNION {{<<DomainNode(downloaded[id][k]), RankingNode(id)>> :
               k \in 2..Len(downloaded[id])} : id \in DOMAIN downloaded}

\* C20 (ranking buckets: failed datasets are skipped): a non-200 answer to
\* the download-URL request or to the file download logs the dataset and
\* goes on with the next one, leaving what was collected; when the first
\* loop is over every dataset of the listing was either skipped so or
\* downloaded; and a run that ends has submitted one RANK link for every
\* domain listed in a downloaded dataset, and no other link.
C20_SkipFailedDatasets ==
    /\ [][skipped' # skipped =>
             /\ bpc' = "fetch"
             /\ bidx' = bidx + 1
             /\ datasets' = datasets
             /\ all_domains' = all_domains
             /\ downloaded' = downloaded]_vars
    /\ [](bpc \in {"rank", "done"} =>
             /\ skipped \cup DOMAIN downloaded = ListedIds
             /\ skipped \cap DOMAIN downloaded = {}
             /\ Len(datasets) = Cardinality(DOMAIN downloaded))
    /\ [](bpc = "done" =>
             /\ BagToSet(rankLinks) = LinksDue
             /\ \A l \in LinksDue : CopiesIn(l, rankLinks) = 1)

\* C20 witness: the run has ended with links submitted for a dataset that
\* comes after a skipped one in the listing.
C20_Witness ==
    /\ bpc = "done"
    /\ \E j \in 1..Len(listing) : \E k \in 1..Len(listing) :
          /\ j < k
          /\ listing[j].id \in skipped
          /\ listing[k].id \in DOMAIN downloaded
          /\ \E l \in BagToSet(rankLinks) : l[2] = RankingNode(listing[k].id)

====
